---- MODULE Spec2Model ----
(* Model of the Bitly bulk import workflow (importLinksFromBitly) and of the *)
(* helpers it uses.  One invocation is a chain of asynchronous steps; every  *)
(* action below is the synchronous code that runs between two awaits.        *)
EXTENDS Integers, Sequences, FiniteSets, TLC

\* ------------------------------------------------------------------ bounds
MaxInv == 3          \* invocations started over one behaviour
MaxConcurrent == 2   \* invocations running at the same time
MaxFaults == 1       \* failing operations and duplicate deliveries over one behaviour

\* ------------------------------------------------------- JavaScript values
Null == "<null>"
Undefined == "<undefined>"
Falsy(v) == v \in {Null, Undefined, ""}

BS == "\\"
Hex == {"0", "a"}

RECURSIVE HexRun(_, _)
\* number of consecutive hex digits of str starting at position i
HexRun(str, i) ==
  IF i <= Len(str) /\ str[i] \in Hex THEN 1 + HexRun(str, i + 1) ELSE 0

\* the regular expression /\\(u[0-9a-fA-F]{0,3}|x[0-9a-fA-F]?)(?![0-9a-fA-F])/
\* matches at position i: length of the match, 0 when there is none
MatchLen(str, i) ==
  IF str[i] = BS /\ i + 1 <= Len(str) /\ str[i + 1] \in {"u", "x"}
  THEN LET n == HexRun(str, i + 2)
           max == IF str[i + 1] = "u" THEN 3 ELSE 1
       IN IF n <= max THEN 2 + n ELSE 0
  ELSE 0

RECURSIVE ReplaceFrom(_, _)
ReplaceFrom(str, i) ==
  IF i > Len(str) THEN <<>>
  ELSE LET m == MatchLen(str, i)
       IN IF m > 0
          THEN <<BS, BS>> \o SubSeq(str, i + 1, i + m - 1) \o ReplaceFrom(str, i + m)
          ELSE <<str[i]>> \o ReplaceFrom(str, i + 1)

\* strings are sequences of characters; <<>> is the empty (falsy) string
sanitizeString(str) == IF str = <<>> THEN str ELSE ReplaceFrom(str, 1)

\* ------------------------------------------------------------ the transform
Includes(seq, x) == \E i \in 1..Len(seq) : seq[i] = x

\* id.split("/") destructured into [domain, key]
SplitDomain(id) == id[1]
SplitKey(id) == IF Len(id) >= 2 THEN id[2] ELSE Undefined

linkConstructorSimple(domain, key) == <<domain, key>>

ValidDate(d) == d # "invalid"
toISOString(d) == <<d, "T00:00:00.000Z">>

\* tagsToId[tag]: the id the mapping gives, undefined for an unmapped tag
TagLookup(tagsToId, tag) ==
  IF \E p \in tagsToId.pairs : p[1] = tag
  THEN (CHOOSE p \in tagsToId.pairs : p[1] = tag)[2]
  ELSE Undefined

TagIds(tagsToId, tags) ==
  IF tagsToId.present THEN [i \in 1..Len(tags) |-> TagLookup(tagsToId, tags[i])]
  ELSE <<>>

\* a custom bitlink is kept when it parses as a URL with a claimed hostname
KeepCustomBitlink(args, cb) == cb.parses /\ Includes(args.domains, cb.hostname)

RECURSIVE FilterCustomBitlinks(_, _)
FilterCustomBitlinks(args, cbs) ==
  IF cbs = <<>> THEN <<>>
  ELSE (IF KeepCustomBitlink(args, Head(cbs)) THEN <<Head(cbs)>> ELSE <<>>)
       \o FilterCustomBitlinks(args, Tail(cbs))

CustomLink(linkDetails, cb) ==
  [linkDetails EXCEPT !.domain = cb.hostname,
                      !.key = cb.path,
                      !.shortLink = linkConstructorSimple(cb.hostname, cb.path)]

\* the record skipped by one of the three early returns of the flatMap callback
Skipped(args, rec) ==
  \/ rec.id = <<>>
  \/ rec.long_url = <<>>
  \/ ~Includes(args.domains, SplitDomain(rec.id))
  \/ sanitizeString(rec.long_url) = <<>>

Throws_dateFirst(args, rec) == ~ValidDate(rec.created_at)

\* the callback throws (RangeError of toISOString, TypeError of tags.map)
Throws(args, rec) == ~Skipped(args, rec) /\ ~ValidDate(rec.created_at)

LinkDetails(args, rec) ==
  [projectId |-> args.workspaceId,
   userId |-> args.userId,
   domain |-> SplitDomain(rec.id),
   key |-> SplitKey(rec.id),
   url |-> sanitizeString(rec.long_url),
   shortLink |-> linkConstructorSimple(SplitDomain(rec.id), SplitKey(rec.id)),
   title |-> sanitizeString(rec.title),
   archived |-> rec.archived,
   createdAt |-> toISOString(rec.created_at),
   tagIds |-> TagIds(args.tagsToId, rec.tags),
   folderId |-> args.folderId]

TransformRecord(args, rec) ==
  IF Skipped(args, rec) THEN <<>>
  ELSE LET linkDetails == LinkDetails(args, rec)
           kept == FilterCustomBitlinks(args, rec.custom_bitlinks)
       IN <<linkDetails>> \o [i \in 1..Len(kept) |-> CustomLink(linkDetails, kept[i])]

RECURSIVE TransformPage(_, _)
TransformPage(args, links) ==
  IF links = <<>> THEN <<>>
  ELSE TransformRecord(args, Head(links)) \o TransformPage(args, Tail(links))

PageThrows(args, links) == \E i \in 1..Len(links) : Throws(args, links[i])

\* ------------------------------------------------- the provider and the data
Rec(id, url, cbs, date, tags) ==
  [id |-> id, long_url |-> url, title |-> <<"g", BS, "x">>, archived |-> FALSE,
   created_at |-> date, custom_bitlinks |-> cbs, tags |-> tags]

Alias(host, path) == [parses |-> TRUE, hostname |-> host, path |-> path]
BadAlias == [parses |-> FALSE, hostname |-> "", path |-> ""]

Url1 == <<"g", "0">>
Url2 == <<BS, "u", "0", "g">>

\* each provider is the sequence of pages it serves; search_after of a page is
\* the cursor of the page that follows it
Providers ==
  << \* 1: a single page
     << [links |-> <<Rec(<<"d1", "a">>, Url1, <<>>, "2020", <<"t1">>)>>,
         search_after |-> ""] >>,
     \* 2: two pages, aliases, records that are skipped
     << [links |-> <<Rec(<<"d1", "a">>, Url2,
                         <<Alias("d1", "b"), BadAlias, Alias("d2", "z")>>, "2020", <<"t1", "t2">>)>>,
         search_after |-> "c1"],
        [links |-> <<Rec(<<"d1", "c">>, Url1, <<>>, "2020", <<>>),
                     Rec(<<>>, Url1, <<>>, "2020", <<>>),
                     Rec(<<"d2", "q">>, Url1, <<Alias("d1", "q")>>, "invalid", <<>>)>>,
         search_after |-> ""] >>,
     \* 3: three pages, the same short link twice in a page and across pages
     << [links |-> <<Rec(<<"d1", "a">>, Url1, <<>>, "2020", <<>>),
                     Rec(<<"d1", "a">>, Url1, <<>>, "2020", <<>>)>>,
         search_after |-> "c1"],
        [links |-> <<Rec(<<"d1", "b">>, Url1, <<Alias("d1", "a")>>, "2020", <<"t1">>)>>,
         search_after |-> "c2"],
        [links |-> <<>>, search_after |-> ""] >>,
     \* 4: the provider leaves the cursor out of the last page
     << [links |-> <<Rec(<<"d1", "a">>, Url1, <<>>, "2020", <<>>)>>,
         search_after |-> Null] >>,
     \* 5: a record whose creation date does not parse
     << [links |-> <<Rec(<<"d1", "a">>, Url1, <<>>, "invalid", <<>>)>>,
         search_after |-> ""] >>
  >>


TagMap == [present |-> TRUE, pairs |-> {<<"t1", "tg1">>}]
NoTagMap == [present |-> FALSE, pairs |-> {}]

\* the import as configured by the user
RequestA ==
  [workspaceId |-> "ws1", userId |-> "u1", bitlyGroup |-> "g1",
   domains |-> <<"d1">>, folderId |-> "f1", tagsToId |-> TagMap,
   bitlyApiKey |-> "key1"]
RequestB ==
  [workspaceId |-> "ws1", userId |-> "u1", bitlyGroup |-> "g1",
   domains |-> <<"d1">>, folderId |-> Undefined, tagsToId |-> NoTagMap,
   bitlyApiKey |-> "key1"]

\* the imports explored: provider, request, count of the first message and the
\* short links already in persistence
Scenarios ==
  { <<1, RequestA, 0, {}>>,
    <<2, RequestA, 2, {<<"d1", "a">>}>>,
    <<2, RequestB, 0, {}>>,
    <<3, RequestB, 0, {}>>,
    <<3, RequestA, 0, {<<"d1", "a">>}>>,
    <<4, RequestB, 0, {}>>,
    <<5, RequestB, 0, {}>> }

OwnerEmail == "owner@ws1"

\* `searchAfter ? "&search_after=" + searchAfter : ""` in the request URL
NoCursor == "<none>"
RequestedCursor_first(searchAfter) == NoCursor
RequestedCursor(searchAfter) == IF Falsy(searchAfter) THEN NoCursor ELSE searchAfter

\* the page the provider serves for a requested cursor
PageIndex(pages, cursor) ==
  IF cursor = NoCursor THEN 1
  ELSE 1 + (CHOOSE k \in 1..Len(pages) : pages[k].search_after = cursor)

FlagKey(workspaceId) == <<"import", "bitly", workspaceId>>
TagsFlagKey(workspaceId) == <<"import", "bitly", workspaceId, "tags">>

FinalizeOps_noTagsKey == <<"redisDel", "tagDeleteMany", "sendEmail">>

\* the operations Promise.all starts, in the order of the array
FinalizeOps == <<"redisDel", "redisDelTags", "tagDeleteMany", "sendEmail">>

SeqToSet(seq) == {seq[i] : i \in 1..Len(seq)}
ShortLinks(links) == [i \in 1..Len(links) |-> links[i].shortLink]

\* --------------------------------------------------- persistence operations
FindMany_none(links, shortLinks) == {}

\* prisma.link.findMany({where: {shortLink: {in: ...}}, select: {shortLink}})
FindMany(links, shortLinks) == {s \in links : Includes(shortLinks, s)}

RECURSIVE LinksToCreate_dedup(_, _)
LinksToCreate_dedup(importedLinks, alreadyCreatedLinks) ==
  IF importedLinks = <<>> THEN <<>>
  ELSE (IF \/ Head(importedLinks).shortLink \in alreadyCreatedLinks
           \/ \E k \in 2..Len(importedLinks) :
                importedLinks[k].shortLink = Head(importedLinks).shortLink
        THEN <<>> ELSE <<Head(importedLinks)>>)
       \o LinksToCreate_dedup(Tail(importedLinks), alreadyCreatedLinks)

RECURSIVE LinksToCreate(_, _)
\* importedLinks.filter(link => !alreadyCreatedLinks.some(l => l.shortLink === link.shortLink))
LinksToCreate(importedLinks, alreadyCreatedLinks) ==
  IF importedLinks = <<>> THEN <<>>
  ELSE (IF Head(importedLinks).shortLink \in alreadyCreatedLinks
        THEN <<>> ELSE <<Head(importedLinks)>>)
       \o LinksToCreate(Tail(importedLinks), alreadyCreatedLinks)

NextCount_created(count, importedLinks, linksToCreate) == count + Len(linksToCreate)

\* count += importedLinks.length
NextCount(count, importedLinks, linksToCreate) == count + Len(importedLinks)

\* bulkCreateLinks: the links become records of the persistence layer
BulkCreate(links, linksToCreate) == links \cup SeqToSet(ShortLinks(linksToCreate))

UsedTagIds(linksToCreate) ==
  UNION {SeqToSet(linksToCreate[i].tagIds) : i \in 1..Len(linksToCreate)}

ContinuationBody_staleCursor(args, nextSearchAfter, count) ==
  [workspaceId |-> args.workspaceId, userId |-> args.userId,
   bitlyGroup |-> args.bitlyGroup, domains |-> args.domains,
   folderId |-> args.folderId, importTags |-> args.tagsToId.present,
   searchAfter |-> args.searchAfter, count |-> count]

ContinuationBody_noFolder(args, nextSearchAfter, count) ==
  [workspaceId |-> args.workspaceId, userId |-> args.userId,
   bitlyGroup |-> args.bitlyGroup, domains |-> args.domains,
   folderId |-> Undefined, importTags |-> args.tagsToId.present,
   searchAfter |-> nextSearchAfter, count |-> count]

\* the body of the continuation message
ContinuationBody(args, nextSearchAfter, count) ==
  [workspaceId |-> args.workspaceId,
   userId |-> args.userId,
   bitlyGroup |-> args.bitlyGroup,
   domains |-> args.domains,
   folderId |-> args.folderId,
   importTags |-> args.tagsToId.present,
   searchAfter |-> nextSearchAfter,
   count |-> count]

\* nextSearchAfter === ""
IsDone(nextSearchAfter) == nextSearchAfter = ""

\* workspace?.users[0].user.email ?? ""
OwnerEmailOf(workspace) == IF workspace = Null THEN "" ELSE OwnerEmail

\* result of a function applied on its own: not yet applied, returned, threw
NotApplied == [st |-> "none", val |-> <<>>]
Returned(v) == [st |-> "ok", val |-> v]
Threw == [st |-> "threw", val |-> <<>>]

\* ------------------------------------------------------------------- state
VARIABLES
  prov,        \* index of the provider that serves this import
  request,     \* the import as configured (what the continuation endpoint knows)
  queue,       \* messages published and not yet delivered
  inv,         \* the invocations started so far, each with its local variables
  links,       \* short links of the link records in persistence
  redisKeys,   \* keys present in the key-value store
  unusedTags,  \* tags of the workspace that no link references
  emails,      \* completion emails sent
  fetchLog,    \* cursors requested from the provider, in order
  bulkCalls,   \* arguments of the bulkCreateLinks calls, in order
  published,   \* continuation messages published, in order
  nfault,      \* failures and duplicate deliveries so far
  input,       \* argument of the function applied on its own
  output       \* what that function returned

vars == <<prov, request, queue, inv, links, redisKeys, unusedTags, emails,
          fetchLog, bulkCalls, published, nfault, input, output>>

Pages == Providers[prov]

Init ==
  /\ \E sc \in Scenarios :
       /\ prov = sc[1]
       /\ request = sc[2]
       /\ queue = << [workspaceId |-> request.workspaceId, userId |-> request.userId,
                      bitlyGroup |-> request.bitlyGroup, domains |-> request.domains,
                      folderId |-> request.folderId,
                      importTags |-> request.tagsToId.present,
                      searchAfter |-> Null, count |-> sc[3]] >>
       /\ links = sc[4]
  /\ inv = <<>>
  /\ redisKeys = {FlagKey(request.workspaceId), TagsFlagKey(request.workspaceId)}
  /\ unusedTags = {"tg1", "tg9"}
  /\ emails = <<>>
  /\ fetchLog = <<>>
  /\ bulkCalls = <<>>
  /\ published = <<>>
  /\ nfault = 0
  /\ input = <<>>
  /\ output = NotApplied

\* the continuation endpoint calls importLinksFromBitly with the fields of the
\* message body, the API key and the tag mapping of the import
ArgsOf(msg) ==
  [workspaceId |-> msg.workspaceId, userId |-> msg.userId,
   bitlyGroup |-> msg.bitlyGroup, domains |-> msg.domains,
   folderId |-> msg.folderId,
   tagsToId |-> IF msg.importTags THEN request.tagsToId ELSE NoTagMap,
   bitlyApiKey |-> request.bitlyApiKey,
   searchAfter |-> IF msg.searchAfter = Undefined THEN Null ELSE msg.searchAfter,
   count |-> msg.count]

\* entry of importLinksFromBitly: the parameters are bound and the page fetch
\* is issued
Invoke(msg) ==
  [msg |-> msg, args |-> ArgsOf(msg), pc |-> "fetch", inflight |-> {"fetch"},
   trace |-> <<"fetch">>, nextSearchAfter |-> Undefined, importedLinks |-> <<>>,
   alreadyCreatedLinks |-> {}, linksToCreate |-> <<>>, count |-> ArgsOf(msg).count,
   linksAtLookup |-> {}, body |-> msg, workspace |-> Null, ownerEmail |-> "", failedAt |-> "", redelivered |-> FALSE, retryOf |-> 0, returned |-> "nothing"]

RemoveAt(seq, k) == SubSeq(seq, 1, k - 1) \o SubSeq(seq, k + 1, Len(seq))

Active == {i \in 1..Len(inv) : inv[i].pc \notin {"done", "failed"} \/ inv[i].inflight # {}}

Start(msg) ==
  /\ Len(inv) < MaxInv
  /\ Cardinality(Active) < MaxConcurrent
  /\ inv' = Append(inv, Invoke(msg))
  /\ fetchLog' = Append(fetchLog, RequestedCursor(ArgsOf(msg).searchAfter))

\* the queue delivers a message to the continuation endpoint
Deliver(k) ==
  /\ k \in 1..Len(queue)
  /\ Start(queue[k])
  /\ queue' = RemoveAt(queue, k)
  /\ UNCHANGED <<prov, request, input, output, links, redisKeys, unusedTags, emails, bulkCalls,
                 published, nfault>>

\* the queue delivers a message a second time while keeping it (at-least-once)
DuplicateDeliver(k) ==
  /\ k \in 1..Len(queue)
  /\ nfault < MaxFaults
  /\ Start(queue[k])
  /\ nfault' = nfault + 1
  /\ UNCHANGED <<prov, request, input, output, queue, links, redisKeys, unusedTags, emails,
                 bulkCalls, published>>

\* the queue delivers again the message of an invocation that failed
Redeliver(i) ==
  /\ i \in 1..Len(inv)
  /\ inv[i].pc = "failed"
  /\ ~inv[i].redelivered
  /\ Len(inv) < MaxInv
  /\ Cardinality(Active) < MaxConcurrent
  /\ inv' = Append([inv EXCEPT ![i].redelivered = TRUE],
                 [Invoke(inv[i].msg) EXCEPT !.retryOf = i])
  /\ fetchLog' = Append(fetchLog, RequestedCursor(ArgsOf(inv[i].msg).searchAfter))
  /\ UNCHANGED <<prov, request, input, output, queue, links, redisKeys, unusedTags, emails,
                 bulkCalls, published, nfault>>

\* ---------------------------------------------- the steps of one invocation
Running_locked(i, pc) ==
  /\ i \in 1..Len(inv) /\ inv[i].pc = pc
  /\ pc = "lookup" => \A j \in 1..Len(inv) : inv[j].pc # "insert"

\* invocation i is suspended at the await named pc; nothing else guards a step
Running(i, pc) == i \in 1..Len(inv) /\ inv[i].pc = pc

Issue_retry(r, pc, op) ==
  [r EXCEPT !.pc = pc, !.inflight = {op}, !.trace = @ \o <<op, op>>]

Issue_noAwait(r, pc, op) ==
  [r EXCEPT !.pc = pc, !.inflight = @ \cup {op}, !.trace = Append(@, op)]

\* the next operation is called and awaited
Issue(r, pc, op) ==
  [r EXCEPT !.pc = pc, !.inflight = {op}, !.trace = Append(@, op)]

Abort_retry(r, at) ==
  [r EXCEPT !.pc = "failed", !.failedAt = at, !.inflight = {},
            !.trace = Append(@, r.trace[Len(r.trace)])]

\* the rejection propagates out of importLinksFromBitly
Abort(r, at) ==
  [r EXCEPT !.pc = "failed", !.failedAt = at, !.inflight = {}]

\* lines 80-187: the response arrives, the page is transformed and the lookup
\* of the existing links is issued
FetchReturns(i) ==
  /\ Running(i, "fetch")
  /\ LET page == Pages[PageIndex(Pages, RequestedCursor(inv[i].args.searchAfter))]
         r == [inv[i] EXCEPT !.nextSearchAfter = page.search_after]
     IN inv' = [inv EXCEPT ![i] =
          IF PageThrows(r.args, page.links) THEN Abort(r, "transform")
          ELSE Issue([r EXCEPT !.importedLinks = TransformPage(r.args, page.links)],
                     "lookup", "findMany")]
  /\ UNCHANGED <<prov, request, input, output, queue, links, redisKeys, unusedTags, emails,
                 fetchLog, bulkCalls, published, nfault>>

\* lines 187-199: the lookup answers, the new links are selected and
\* bulkCreateLinks is called with them
LookupReturns(i) ==
  /\ Running(i, "lookup")
  /\ LET already == FindMany(links, ShortLinks(inv[i].importedLinks))
         toCreate == LinksToCreate(inv[i].importedLinks, already)
     IN /\ inv' = [inv EXCEPT ![i] =
               Issue([@ EXCEPT !.alreadyCreatedLinks = already,
                               !.linksToCreate = toCreate,
                               !.linksAtLookup = links],
                     "insert", "bulkCreateLinks")]
        /\ bulkCalls' = Append(bulkCalls, [inv |-> i, links |-> ShortLinks(toCreate)])
  /\ UNCHANGED <<prov, request, input, output, queue, links, redisKeys, unusedTags, emails,
                 fetchLog, published, nfault>>

\* lines 199-210: the links are stored, the count is advanced and the timer of
\* 500 ms is started
InsertReturns(i) ==
  /\ Running(i, "insert")
  /\ links' = BulkCreate(links, inv[i].linksToCreate)
  /\ unusedTags' = unusedTags \ UsedTagIds(inv[i].linksToCreate)
  /\ inv' = [inv EXCEPT ![i] =
       [@ EXCEPT !.count = NextCount(@, inv[i].importedLinks, inv[i].linksToCreate),
                 !.pc = "delay", !.inflight = {}, !.trace = Append(@, "delay")]]
  /\ UNCHANGED <<prov, request, input, output, queue, redisKeys, emails, fetchLog, bulkCalls,
                 published, nfault>>

\* lines 210-213 and 284-297: the timer fires; either the workspace lookup of
\* the finalization or the publication of the continuation is issued
TimerFires(i) ==
  /\ Running(i, "delay")
  /\ LET r == inv[i]
     IN inv' = [inv EXCEPT ![i] =
          IF IsDone(r.nextSearchAfter) THEN Issue(r, "workspace", "findUnique")
          ELSE Issue([r EXCEPT !.body = ContinuationBody(r.args, r.nextSearchAfter, r.count)],
                     "publish", "publishJSON")]
  /\ UNCHANGED <<prov, request, input, output, queue, links, redisKeys, unusedTags, emails,
                 fetchLog, bulkCalls, published, nfault>>

\* line 297: the queue accepted the message and the invocation returns
PublishReturns(i) ==
  /\ Running(i, "publish")
  /\ queue' = Append(queue, inv[i].body)
  /\ published' = Append(published, [inv |-> i, body |-> inv[i].body])
  /\ inv' = [inv EXCEPT ![i] =
       [@ EXCEPT !.pc = "done", !.inflight = {}, !.returned = "publishResponse"]]
  /\ UNCHANGED <<prov, request, input, output, links, redisKeys, unusedTags, emails, fetchLog,
                 bulkCalls, nfault>>

\* lines 249-282: the workspace lookup answers (null when the workspace is
\* gone) and Promise.all starts the four finalization operations
WorkspaceReturns(i, workspace) ==
  /\ Running(i, "workspace")
  /\ inv' = [inv EXCEPT ![i] =
       [@ EXCEPT !.workspace = workspace,
                 !.ownerEmail = OwnerEmailOf(workspace),
                 !.pc = "finalize",
                 !.inflight = SeqToSet(FinalizeOps),
                 !.trace = @ \o FinalizeOps]]
  /\ UNCHANGED <<prov, request, input, output, queue, links, redisKeys, unusedTags, emails,
                 fetchLog, bulkCalls, published, nfault>>

\* the effect of one finalization operation on the outside world
FinalizeEffect(i, op) ==
  /\ redisKeys' = IF op = "redisDel" THEN redisKeys \ {FlagKey(inv[i].args.workspaceId)}
                  ELSE IF op = "redisDelTags"
                       THEN redisKeys \ {TagsFlagKey(inv[i].args.workspaceId)}
                       ELSE redisKeys
  /\ unusedTags' = IF op = "tagDeleteMany" THEN {} ELSE unusedTags
  /\ emails' = IF op = "sendEmail"
               THEN Append(emails, [inv |-> i, email |-> inv[i].ownerEmail,
                                    count |-> inv[i].count,
                                    domains |-> inv[i].args.domains])
               ELSE emails

\* lines 253-283: one of the operations started by Promise.all completes; the
\* invocation returns the count once all four have completed
FinalizeOpReturns(i, op) ==
  /\ i \in 1..Len(inv)
  /\ inv[i].pc \in {"finalize", "failed"}
  /\ op \in inv[i].inflight
  /\ FinalizeEffect(i, op)
  /\ inv' = [inv EXCEPT ![i] =
       IF @.pc = "finalize" /\ @.inflight = {op}
       THEN [@ EXCEPT !.pc = "done", !.inflight = {}, !.returned = "count"]
       ELSE [@ EXCEPT !.inflight = @ \ {op}]]
  /\ UNCHANGED <<prov, request, input, output, queue, links, fetchLog, bulkCalls, published,
                 nfault>>

\* ------------------------------------------------------------------ failures
\* the awaited operation rejects: the exception leaves importLinksFromBitly
Fails(i, pc) ==
  /\ Running(i, pc)
  /\ nfault < MaxFaults
  /\ nfault' = nfault + 1
  /\ inv' = [inv EXCEPT ![i] = Abort(@, pc)]
  /\ UNCHANGED <<prov, request, input, output, queue, links, redisKeys, unusedTags, emails,
                 fetchLog, bulkCalls, published>>

FetchFails(i) == Fails(i, "fetch")
LookupFails(i) == Fails(i, "lookup")
InsertFails(i) == Fails(i, "insert")
PublishFails(i) == Fails(i, "publish")
\* the lookup rejects, or the workspace has no owner (users[0] is undefined)
WorkspaceFails(i) == Fails(i, "workspace")

\* one of the operations started by Promise.all rejects: Promise.all rejects
\* at once, the other operations stay in flight
FinalizeOpFails(i, op) ==
  /\ i \in 1..Len(inv)
  /\ inv[i].pc \in {"finalize", "failed"}
  /\ op \in inv[i].inflight
  /\ nfault < MaxFaults
  /\ nfault' = nfault + 1
  /\ inv' = [inv EXCEPT ![i] =
       [@ EXCEPT !.pc = "failed", !.inflight = @ \ {op},
                 !.failedAt = IF inv[i].pc = "failed" THEN @ ELSE op]]
  /\ UNCHANGED <<prov, request, input, output, queue, links, redisKeys, unusedTags, emails,
                 fetchLog, bulkCalls, published>>

\* ------------------------------------------------------------ specifications
Invs == 1..MaxInv
Ops == {"redisDel", "redisDelTags", "tagDeleteMany", "sendEmail"}

Next ==
  \/ \E k \in 1..MaxInv : Deliver(k)
  \/ \E k \in 1..MaxInv : DuplicateDeliver(k)
  \/ \E i \in Invs : Redeliver(i)
  \/ \E i \in Invs : FetchReturns(i)
  \/ \E i \in Invs : LookupReturns(i)
  \/ \E i \in Invs : InsertReturns(i)
  \/ \E i \in Invs : TimerFires(i)
  \/ \E i \in Invs : PublishReturns(i)
  \/ \E i \in Invs, w \in {"workspace", Null} : WorkspaceReturns(i, w)
  \/ \E i \in Invs, op \in Ops : FinalizeOpReturns(i, op)
  \/ \E i \in Invs : FetchFails(i)
  \/ \E i \in Invs : LookupFails(i)
  \/ \E i \in Invs : InsertFails(i)
  \/ \E i \in Invs : PublishFails(i)
  \/ \E i \in Invs : WorkspaceFails(i)
  \/ \E i \in Invs, op \in Ops : FinalizeOpFails(i, op)

Spec == Init /\ [][Next]_vars

\* the import when no operation fails and the queue delivers every message
\* exactly once
NextOk ==
  \/ \E k \in 1..MaxInv : Deliver(k)
  \/ \E i \in Invs : FetchReturns(i)
  \/ \E i \in Invs : LookupReturns(i)
  \/ \E i \in Invs : InsertReturns(i)
  \/ \E i \in Invs : TimerFires(i)
  \/ \E i \in Invs : PublishReturns(i)
  \/ \E i \in Invs, w \in {"workspace", Null} : WorkspaceReturns(i, w)
  \/ \E i \in Invs, op \in Ops : FinalizeOpReturns(i, op)

LiveSpec == Init /\ [][NextOk]_vars /\ WF_vars(NextOk)

TypeOK == Len(inv) <= MaxInv

\* ------------------------------------------------------------------- claims
\* what the provider serves to invocation i, and what the transform makes of it
PageOf(i) == Pages[PageIndex(Pages, RequestedCursor(inv[i].args.searchAfter))]
BatchOf(i) == TransformPage(inv[i].args, PageOf(i).links)
PublishedBy(i) == {k \in 1..Len(published) : published[k].inv = i}
EmailsBy(i) == {k \in 1..Len(emails) : emails[k].inv = i}
Issued(i, op) == \E k \in 1..Len(inv[i].trace) : inv[i].trace[k] = op
FinalizationOps == {"findUnique", "redisDel", "redisDelTags", "tagDeleteMany", "sendEmail"}
NonEmptyCursor(c) == c \notin {"", Null, Undefined}

\* C1: an invocation that completed on a page whose next-page cursor is
\* non-empty has published exactly one continuation message, carrying the
\* provider's cursor and the running total, and has done no finalization
\* (no flag-key deletion, no tag deletion, no email).
C1_ContinuationOnHasMore ==
  \A i \in 1..Len(inv) :
    (inv[i].pc = "done" /\ NonEmptyCursor(PageOf(i).search_after)) =>
      /\ Cardinality(PublishedBy(i)) = 1
      /\ \A k \in PublishedBy(i) :
           /\ published[k].body.searchAfter = PageOf(i).search_after
           /\ published[k].body.count = inv[i].args.count + Len(BatchOf(i))
      /\ \A op \in FinalizationOps : ~Issued(i, op)
      /\ EmailsBy(i) = {}
      /\ inv[i].returned = "publishResponse"

C1_Witness ==
  \E i \in 1..Len(inv) :
    /\ inv[i].pc = "done" /\ PageOf(i).search_after = "c1"
    /\ Len(BatchOf(i)) > 0 /\ PublishedBy(i) # {}

BodyKeys == {"workspaceId", "userId", "bitlyGroup", "domains", "folderId",
             "importTags", "searchAfter", "count"}

\* C3 as stated: the continuation message carries every field of the request
\* unchanged, the tag mapping and the provider API key included.
C3_AllFieldsCarried ==
  \A k \in 1..Len(published) :
    LET body == published[k].body
        args == inv[published[k].inv].args
    IN /\ {"tagsToId", "bitlyApiKey"} \subseteq DOMAIN body
       /\ body.workspaceId = args.workspaceId
       /\ body.userId = args.userId
       /\ body.bitlyGroup = args.bitlyGroup
       /\ body.domains = args.domains
       /\ body.folderId = args.folderId

\* C3 amended: the continuation message carries workspaceId, userId, the
\* provider group, the domains and folderId unchanged; the tag mapping is
\* reduced to the flag importTags (true iff a mapping was given) and the
\* provider API key is not in the message.
C3_CarriedFields ==
  \A k \in 1..Len(published) :
    LET body == published[k].body
        args == inv[published[k].inv].args
    IN /\ DOMAIN body = BodyKeys
       /\ body.workspaceId = args.workspaceId
       /\ body.userId = args.userId
       /\ body.bitlyGroup = args.bitlyGroup
       /\ body.domains = args.domains
       /\ body.folderId = args.folderId
       /\ body.importTags = args.tagsToId.present

C3_Witness ==
  \E k \in 1..Len(published) :
    /\ inv[published[k].inv].args.tagsToId.present
    /\ inv[published[k].inv].args.folderId = "f1"
    /\ published[k].body.searchAfter # inv[published[k].inv].args.searchAfter
    /\ published[k].body.count # inv[published[k].inv].args.count

\* a provider that serves a finite sequence of pages: every cursor but the
\* last is a non-empty string, the last is the empty string, and no page
\* makes the transform throw
WellFormedProvider ==
  /\ \A k \in 1..(Len(Pages) - 1) : NonEmptyCursor(Pages[k].search_after)
  /\ Pages[Len(Pages)].search_after = ""
  /\ \A k \in 1..Len(Pages) : ~PageThrows(request, Pages[k].links)

\* the cursors of the pages in the order the provider chains them
CursorOrder ==
  [k \in 1..Len(Pages) |-> IF k = 1 THEN NoCursor ELSE Pages[k - 1].search_after]

IsPrefix(a, b) == Len(a) <= Len(b) /\ SubSeq(b, 1, Len(a)) = a
Finalizers == {i \in 1..Len(inv) : Issued(i, "findUnique")}
Finalized == \E i \in 1..Len(inv) : inv[i].pc = "done" /\ inv[i].returned = "count"

\* C4: with a well-formed provider, no failing step and every continuation
\* delivered, the chain of invocations eventually finalizes; the pages are
\* fetched once each in cursor order, and finalization happens once, after the
\* last page.
C4_ChainReachesFinalization ==
  /\ WellFormedProvider ~> (Finalized /\ fetchLog = CursorOrder)
  /\ [](WellFormedProvider =>
         /\ IsPrefix(fetchLog, CursorOrder)
         /\ Cardinality(Finalizers) <= 1
         /\ Len(emails) <= 1
         /\ (Finalizers # {} => fetchLog = CursorOrder)
         /\ \A i \in Finalizers : i = Len(CursorOrder))

C4_Witness ==
  /\ WellFormedProvider /\ Finalized
  /\ Len(fetchLog) = 3 /\ fetchLog = CursorOrder

UpstreamSteps == {"fetch", "lookup", "insert", "publish"}

\* the operations issued by an invocation that failed at the given step
TraceUpTo(at) ==
  IF at = "fetch" THEN <<"fetch">>
  ELSE IF at = "lookup" THEN <<"fetch", "findMany">>
  ELSE IF at = "insert" THEN <<"fetch", "findMany", "bulkCreateLinks">>
  ELSE <<"fetch", "findMany", "bulkCreateLinks", "delay", "publishJSON">>

FailedUpstream(i) == inv[i].pc = "failed" /\ inv[i].failedAt \in UpstreamSteps

C5_Aborted ==
  \A i \in 1..Len(inv) :
    FailedUpstream(i) =>
      /\ inv[i].trace = TraceUpTo(inv[i].failedAt)
      /\ inv[i].inflight = {}
      /\ PublishedBy(i) = {}
      /\ EmailsBy(i) = {}
      /\ inv[i].returned = "nothing"
      /\ inv[i].failedAt # "publish" => inv[i].count = inv[i].args.count

C5_Frozen ==
  /\ \A i \in 1..Len(inv) :
       FailedUpstream(i) => inv'[i] = [inv[i] EXCEPT !.redelivered = inv'[i].redelivered]
  /\ (Active = {} /\ queue = <<>>) =>
       /\ Len(inv') = Len(inv) + 1
       /\ \E i \in 1..Len(inv) :
            /\ inv[i].pc = "failed" /\ inv'[Len(inv')].msg = inv[i].msg
       /\ queue' = queue

\* C5: an invocation whose fetch, lookup, bulk insert or publish failed has
\* stopped at that operation: nothing after it was issued, nothing was retried,
\* no continuation was published; it never moves again, and once nothing is
\* running and the queue is empty only a redelivery of a failed invocation's
\* message starts another invocation.
C5_FailureAborts == []C5_Aborted /\ [][C5_Frozen]_vars

C5_Witness ==
  \E i \in 1..Len(inv) :
    /\ inv[i].pc = "failed" /\ inv[i].failedAt = "publish"
    /\ SeqToSet(ShortLinks(inv[i].linksToCreate)) # {}
    /\ SeqToSet(ShortLinks(inv[i].linksToCreate)) \subseteq links
    /\ queue = <<>> /\ Active = {} /\ ~Finalized

\* J of the batch of invocation i: the entries whose short link was in
\* persistence when the lookup ran
ExistingIn(i) ==
  LET batch == BatchOf(i)
  IN {k \in 1..Len(batch) : batch[k].shortLink \in inv[i].linksAtLookup}
BulkCallsBy(i) == {k \in 1..Len(bulkCalls) : bulkCalls[k].inv = i}

\* C6: of a batch of K normalized links of which J exist in persistence by
\* short link, exactly K-J are passed to bulk-insert, also when two entries of
\* the batch share a short link.
C6_PassesKMinusJ ==
  \A i \in 1..Len(inv) :
    Issued(i, "bulkCreateLinks") =>
      /\ Cardinality(BulkCallsBy(i)) = 1
      /\ \A k \in BulkCallsBy(i) :
           Len(bulkCalls[k].links) = Len(BatchOf(i)) - Cardinality(ExistingIn(i))

C6_Witness ==
  \E i \in 1..Len(inv) :
    /\ Issued(i, "bulkCreateLinks")
    /\ Len(BatchOf(i)) = 2 /\ Cardinality(ExistingIn(i)) = 2
    /\ BatchOf(i)[1].shortLink = BatchOf(i)[2].shortLink
    /\ Cardinality(inv[i].alreadyCreatedLinks) = 1

C6_WitnessPartial ==
  \E i \in 1..Len(inv) :
    /\ Issued(i, "bulkCreateLinks")
    /\ Len(BatchOf(i)) = 2 /\ Cardinality(ExistingIn(i)) = 1

RECURSIVE PersistedTotal(_)
\* number of links passed to bulk-insert over the given calls
PersistedTotal(calls) ==
  IF calls = <<>> THEN 0 ELSE Len(Head(calls).links) + PersistedTotal(Tail(calls))

RECURSIVE NormalizedTotal(_)
\* number of normalized links the given pages yield
NormalizedTotal(pages) ==
  IF pages = <<>> THEN 0
  ELSE Len(TransformPage(request, Head(pages).links)) + NormalizedTotal(Tail(pages))

FirstCount == inv[1].args.count

\* C7 as stated: the count returned and reported at completion is the count of
\* the first invocation plus the number of links persisted over all pages;
\* links skipped as already existing are not counted.
C7_CountsPersistedLinks ==
  \A i \in 1..Len(inv) :
    (inv[i].pc = "done" /\ inv[i].returned = "count") =>
      /\ inv[i].count = FirstCount + PersistedTotal(bulkCalls)
      /\ \A k \in EmailsBy(i) : emails[k].count = FirstCount + PersistedTotal(bulkCalls)

\* C7 amended: the count returned and reported at completion is the count of
\* the first invocation plus, for every page, the number of normalized links
\* of that page, those skipped as already existing included.
C7_CountsNormalizedLinks ==
  \A i \in 1..Len(inv) :
    (inv[i].pc = "done" /\ inv[i].returned = "count") =>
      /\ inv[i].count = FirstCount + NormalizedTotal(Pages)
      /\ EmailsBy(i) # {}
      /\ \A k \in EmailsBy(i) : emails[k].count = FirstCount + NormalizedTotal(Pages)

C7_Witness ==
  \E i \in 1..Len(inv) :
    /\ inv[i].pc = "done" /\ inv[i].returned = "count"
    /\ Len(Pages) > 1 /\ FirstCount > 0
    /\ PersistedTotal(bulkCalls) < NormalizedTotal(Pages)

\* C8: nothing but its own position guards the lookup of an invocation, so it
\* proceeds while another invocation is between its lookup and its insert; two
\* invocations that both looked a short link up before either stored it both
\* pass it to bulk-insert.
C8_NoLock ==
  \A i \in 1..Len(inv) : \A j \in 1..Len(inv) \ {i} :
    /\ (inv[i].pc = "lookup" /\ inv[j].pc = "insert") => ENABLED LookupReturns(i)
    /\ (Issued(i, "bulkCreateLinks") /\ Issued(j, "bulkCreateLinks")) =>
         \A s \in SeqToSet(ShortLinks(inv[i].importedLinks))
                    \cap SeqToSet(ShortLinks(inv[j].importedLinks)) :
           s \notin inv[i].linksAtLookup \cup inv[j].linksAtLookup
             => \A c \in BulkCallsBy(i) \cup BulkCallsBy(j) : Includes(bulkCalls[c].links, s)

\* the double import: two invocations of the same page both passed the same
\* short link to bulk-insert and both inserts completed
C8_Witness ==
  \E i \in 1..Len(inv) : \E j \in 1..Len(inv) \ {i} :
    /\ inv[i].args.searchAfter = inv[j].args.searchAfter
    /\ inv[i].pc = "delay" /\ inv[j].pc = "delay"
    /\ \E s \in links :
         /\ s \notin inv[i].linksAtLookup \cup inv[j].linksAtLookup
         /\ \A c \in BulkCallsBy(i) \cup BulkCallsBy(j) : Includes(bulkCalls[c].links, s)

PublishTrace == <<"fetch", "findMany", "bulkCreateLinks", "delay", "publishJSON">>
FinalizeTrace == <<"fetch", "findMany", "bulkCreateLinks", "delay", "findUnique",
                   "redisDel", "redisDelTags", "tagDeleteMany", "sendEmail">>

\* C9: the operations of an invocation are issued in the order page fetch,
\* lookup, bulk insert, delay, then finalization or publish, each at most once,
\* and before finalization an operation is issued only when the one before
\* it has completed.
C9_PhaseOrder ==
  \A i \in 1..Len(inv) :
    /\ IsPrefix(inv[i].trace, PublishTrace) \/ IsPrefix(inv[i].trace, FinalizeTrace)
    /\ Len(inv[i].trace) <= 5 => inv[i].inflight \subseteq {inv[i].trace[Len(inv[i].trace)]}
    /\ Cardinality(BulkCallsBy(i)) <= 1
    /\ Cardinality(BulkCallsBy(i)) = 1 <=> Issued(i, "bulkCreateLinks")
    /\ Issued(i, "publishJSON") => NonEmptyCursor(inv[i].nextSearchAfter) \/ inv[i].nextSearchAfter = Null
    /\ Issued(i, "findUnique") => inv[i].nextSearchAfter = ""

C9_Witness ==
  /\ \E i \in 1..Len(inv) : inv[i].trace = FinalizeTrace /\ inv[i].pc = "done"
  /\ \E i \in 1..Len(inv) : inv[i].trace = PublishTrace /\ inv[i].pc = "done"

\* C10 as stated: at most one external operation of an invocation is in
\* flight at any moment, finalization included.
C10_NoParallelism ==
  \A i \in 1..Len(inv) : Cardinality(inv[i].inflight) <= 1

\* C10 amended: at most one external operation of an invocation is in flight
\* at any moment until finalization starts; the two key deletions, the tag
\* deletion and the email send of the finalization are started together and
\* are in flight at the same time.
C10_ParallelOnlyInFinalization ==
  \A i \in 1..Len(inv) :
    /\ ~Issued(i, "redisDel") => Cardinality(inv[i].inflight) <= 1
    /\ Issued(i, "redisDel") => inv[i].inflight \subseteq Ops
    /\ inv[i].pc = "finalize" /\ inv[i].inflight = Ops =>
         \A op \in Ops : ENABLED FinalizeOpReturns(i, op)

C10_Witness ==
  \E i \in 1..Len(inv) : inv[i].pc = "finalize" /\ inv[i].inflight = Ops


\* ------------------------------------------- the page transform on its own
MaxAliases == 2      \* custom bitlinks of a record

AliasInputs == {Alias("d1", "x"), Alias("d1", "y"), Alias("d2", "z"), BadAlias}

RECURSIVE SeqsUpTo(_, _)
\* the sequences over S of length at most n
SeqsUpTo(S, n) ==
  IF n = 0 THEN {<<>>}
  ELSE LET shorter == SeqsUpTo(S, n - 1)
       IN shorter \cup {Append(q, x) : q \in shorter, x \in S}

\* the external records explored: with and without id and URL, claimed and
\* foreign primary domain, every mix of aliases, parsable and unparsable date
RecordInputs ==
  {Rec(id, url, cbs, date, <<"t1", "t2">>) :
     id \in {<<>>, <<"d1", "a">>, <<"d2", "b">>},
     url \in {<<>>, Url2},
     cbs \in SeqsUpTo(AliasInputs, MaxAliases),
     date \in {"2020", "invalid"}}

NeighbourInputs ==
  {Rec(<<"d1", "n">>, Url1, <<Alias("d1", "m")>>, "2020", <<>>),
   Rec(<<"d1", "n">>, Url1, <<>>, "invalid", <<>>)}

PageInputs ==
  {<<r>> : r \in RecordInputs}
    \cup {<<r, n>> : r \in RecordInputs, n \in NeighbourInputs}
    \cup {<<n, r>> : r \in RecordInputs, n \in NeighbourInputs}

\* the import variables at rest while a function is applied on its own
ImportIdle ==
  /\ prov = 1 /\ queue = <<>> /\ inv = <<>> /\ links = {} /\ redisKeys = {}
  /\ unusedTags = {} /\ emails = <<>> /\ fetchLog = <<>> /\ bulkCalls = <<>>
  /\ published = <<>> /\ nfault = 0

TransformInit ==
  /\ ImportIdle
  /\ request \in {RequestA, RequestB}
  /\ input \in PageInputs
  /\ output = NotApplied

\* lines 85-175: links.flatMap(...) over the records of one page
ApplyTransform ==
  /\ output = NotApplied
  /\ output' = IF PageThrows(request, input) THEN Threw
               ELSE Returned(TransformPage(request, input))
  /\ UNCHANGED <<prov, request, queue, inv, links, redisKeys, unusedTags, emails,
                 fetchLog, bulkCalls, published, nfault, input>>

TransformSpec == TransformInit /\ [][ApplyTransform]_vars

\* what the claims say of a record, stated on the record alone
Qualifies(rec) ==
  rec.id # <<>> /\ rec.long_url # <<>> /\ Includes(request.domains, rec.id[1])
InDomain(cb) == cb.parses /\ Includes(request.domains, cb.hostname)
InDomainAliases(rec) ==
  {k \in 1..Len(rec.custom_bitlinks) : InDomain(rec.custom_bitlinks[k])}
EntriesOf(rec) == IF Qualifies(rec) THEN 1 + Cardinality(InDomainAliases(rec)) ELSE 0

\* the k-th in-domain alias of a record, in the original order
NthInDomain(rec, k) ==
  LET idx == CHOOSE j \in InDomainAliases(rec) :
               Cardinality({m \in InDomainAliases(rec) : m <= j}) = k
  IN rec.custom_bitlinks[idx]

SameButLink(a, b) ==
  [a EXCEPT !.domain = b.domain, !.key = b.key, !.shortLink = b.shortLink] = b

\* the entries 1..1+M of the output are the primary of rec and then its
\* in-domain aliases in order
LeadsWith(out, rec) ==
  LET M == Cardinality(InDomainAliases(rec))
  IN /\ Len(out) >= 1 + M
     /\ out[1].domain = rec.id[1] /\ out[1].key = rec.id[2]
     /\ out[1].shortLink = <<rec.id[1], rec.id[2]>>
     /\ \A k \in 1..M :
          /\ out[1 + k].domain = NthInDomain(rec, k).hostname
          /\ out[1 + k].key = NthInDomain(rec, k).path
          /\ out[1 + k].shortLink = <<NthInDomain(rec, k).hostname, NthInDomain(rec, k).path>>
          /\ SameButLink(out[1], out[1 + k])

\* C11: for a record with an id, a target URL and a claimed primary domain the
\* transform returns 1 + M entries, the primary first and then the in-domain
\* aliases in their order, each differing from the primary in domain, key and
\* short link only; the record never makes the transform fail.
C11_OnePlusInDomainAliases ==
  (output.st # "none" /\ Len(input) = 1 /\ Qualifies(input[1])) =>
    /\ output.st = "ok"
    /\ Len(output.val) = 1 + Cardinality(InDomainAliases(input[1]))
    /\ LeadsWith(output.val, input[1])

\* the same for the records whose creation date parses
C11_HoldsWhenDateParses ==
  (output.st # "none" /\ Qualifies(input[1]) /\ ValidDate(input[1].created_at)
     /\ \A k \in 1..Len(input) : ValidDate(input[k].created_at)) =>
    /\ output.st = "ok"
    /\ Len(output.val) = EntriesOf(input[1]) + (IF Len(input) = 2 THEN EntriesOf(input[2]) ELSE 0)
    /\ LeadsWith(output.val, input[1])


RECURSIVE Strip(_)
\* the page without the records that lack an id or a URL or whose primary
\* domain is foreign
Strip(page) ==
  IF page = <<>> THEN <<>>
  ELSE (IF Qualifies(Head(page)) THEN <<Head(page)>> ELSE <<>>) \o Strip(Tail(page))

RECURSIVE TotalEntries(_)
TotalEntries(page) ==
  IF page = <<>> THEN 0 ELSE EntriesOf(Head(page)) + TotalEntries(Tail(page))

HasUnqualified == \E k \in 1..Len(input) : ~Qualifies(input[k])

\* C12: a record without id or target URL, or with a foreign primary domain,
\* yields no entry whatever its URL, date and aliases; it never makes the
\* transform fail and the page yields what it yields without that record.
C12_UnqualifiedRecordsYieldNothing ==
  (output.st # "none" /\ HasUnqualified) =>
    /\ output.st = "threw" <=> PageThrows(request, Strip(input))
    /\ output.st = "ok" =>
         /\ output.val = TransformPage(request, Strip(input))
         /\ Len(output.val) = TotalEntries(input)
    /\ Strip(input) = <<>> => output = Returned(<<>>)

C12_Witness ==
  /\ output.st = "ok" /\ Len(input) = 2 /\ Len(output.val) = 2
  /\ input[1].id = <<"d2", "b">> /\ input[1].long_url # <<>>
  /\ ~ValidDate(input[1].created_at)
  /\ \E k \in 1..Len(input[1].custom_bitlinks) : InDomain(input[1].custom_bitlinks[k])


\* --------------------------------------------------- sanitizeString on its own
MaxStrLen == 6       \* characters of a sanitized string

Alphabet == {BS, "u", "x", "0", "g"}

Str(chars) == [kind |-> "string", chars |-> chars]
StringInputs ==
  {Str(c) : c \in SeqsUpTo(Alphabet, MaxStrLen)}
    \cup {[kind |-> "null", chars |-> <<>>], [kind |-> "undefined", chars |-> <<>>]}

SanitizeInit ==
  /\ ImportIdle
  /\ request = RequestB
  /\ input \in StringInputs
  /\ output = NotApplied

\* lines 10-46: `if (!str) return str`, then the replacement
ApplySanitize ==
  /\ output = NotApplied
  /\ output' = IF input.kind # "string" THEN Returned(input)
               ELSE Returned(Str(sanitizeString(input.chars)))
  /\ UNCHANGED <<prov, request, queue, inv, links, redisKeys, unusedTags, emails,
                 fetchLog, bulkCalls, published, nfault, input>>

SanitizeSpec == SanitizeInit /\ [][ApplySanitize]_vars

RECURSIVE TruncatedFrom(_, _)
\* reading str from position i as escaped text: a backslash escapes the
\* character after it; \u wants 4 hex digits and \x wants 2, with fewer the
\* escape is truncated
TruncatedFrom(str, i) ==
  IF i > Len(str) THEN FALSE
  ELSE IF str[i] # BS THEN TruncatedFrom(str, i + 1)
  ELSE IF i = Len(str) THEN FALSE
  ELSE IF str[i + 1] = "u"
       THEN HexRun(str, i + 2) < 4 \/ TruncatedFrom(str, i + 6)
  ELSE IF str[i + 1] = "x"
       THEN HexRun(str, i + 2) < 2 \/ TruncatedFrom(str, i + 4)
  ELSE TruncatedFrom(str, i + 2)

HasTruncatedEscape(str) == TruncatedFrom(str, 1)

\* C13: the output of sanitizeString for a string with a truncated \u or \x
\* escape has no truncated escape; for a string without one, and for null,
\* undefined and the empty string, the output is the input.
C13_NoTruncatedEscapeLeft ==
  output.st # "none" =>
    IF input.kind = "string" /\ HasTruncatedEscape(input.chars)
    THEN output.val.kind = "string" /\ ~HasTruncatedEscape(output.val.chars)
    ELSE output.val = input

\* the part of C13 that the code meets: a string in which no backslash stands
\* before a truncated escape
C13_HoldsWithoutBackslashBefore ==
  (output.st # "none" /\ input.kind = "string"
     /\ \A i \in 2..Len(input.chars) :
          MatchLen(input.chars, i) > 0 => input.chars[i - 1] # BS) =>
    IF HasTruncatedEscape(input.chars)
    THEN ~HasTruncatedEscape(output.val.chars)
    ELSE output.val = input


\* ------------------------------------------------- saleEventResponseSchema
\* JSON values of the fields: a number, a string, null, or the key left out
NumV(n) == [t |-> "number", n |-> n, s |-> ""]
StrV(str) == [t |-> "string", n |-> 0, s |-> str]
NullV == [t |-> "null", n |-> 0, s |-> ""]
UndefV == [t |-> "undefined", n |-> 0, s |-> ""]

PaymentProcessors == {"stripe", "shopify", "paddle"}

\* z.number().int().positive()
AmountOk(v) == v.t = "number" /\ v.n > 0
\* z.string().nullish().default(null)
InvoiceIdOk(v) == v.t \in {"string", "null", "undefined"}
InvoiceIdOut_keepUndefined(v) == v
InvoiceIdOut(v) == IF v.t = "undefined" THEN NullV ELSE v
\* z.enum(["stripe", "shopify", "paddle"])
PaymentProcessorOk(v) == v.t = "string" /\ v.s \in PaymentProcessors
\* z.number() and z.string() of the deprecated fields
IsNumber(v) == v.t = "number"
IsString(v) == v.t = "string"

\* trackSaleRequestSchema.pick({amount, invoiceId, paymentProcessor})
SaleOk(sale) ==
  AmountOk(sale.amount) /\ InvoiceIdOk(sale.invoiceId)
    /\ PaymentProcessorOk(sale.paymentProcessor)

\* the object is accepted (the fields other than the sale and its deprecated
\* mirrors are taken to be valid)
Accepts(obj) ==
  /\ SaleOk(obj.sale)
  /\ IsNumber(obj.saleAmount)
  /\ IsString(obj.invoice_id)
  /\ IsString(obj.payment_processor)

Parsed(obj) ==
  [sale |-> [amount |-> obj.sale.amount,
             invoiceId |-> InvoiceIdOut(obj.sale.invoiceId),
             paymentProcessor |-> obj.sale.paymentProcessor],
   saleAmount |-> obj.saleAmount,
   invoice_id |-> obj.invoice_id,
   payment_processor |-> obj.payment_processor]

ObjectInputs ==
  {[sale |-> [amount |-> a, invoiceId |-> i, paymentProcessor |-> p],
    saleAmount |-> sa, invoice_id |-> ii, payment_processor |-> pp] :
     a \in {NumV(100), NumV(250), NumV(0), StrV("100")},
     i \in {StrV("inv1"), NullV, UndefV},
     p \in {StrV("stripe"), StrV("paypal")},
     sa \in {NumV(100), NumV(250), StrV("100")},
     ii \in {StrV("inv1"), StrV(""), NullV},
     pp \in {StrV("stripe"), StrV("custom")}}

SchemaInit ==
  /\ ImportIdle
  /\ request = RequestB
  /\ input \in ObjectInputs
  /\ output = NotApplied

\* saleEventResponseSchema.parse(input)
ApplySchema ==
  /\ output = NotApplied
  /\ output' = IF Accepts(input) THEN Returned(Parsed(input)) ELSE Threw
  /\ UNCHANGED <<prov, request, queue, inv, links, redisKeys, unusedTags, emails,
                 fetchLog, bulkCalls, published, nfault, input>>

SchemaSpec == SchemaInit /\ [][ApplySchema]_vars

\* C14 as stated: in every object the schema accepts the deprecated fields
\* equal the canonical ones: saleAmount = sale.amount, invoice_id =
\* sale.invoiceId and payment_processor = sale.paymentProcessor.
C14_DeprecatedFieldsMirror ==
  output.st = "ok" =>
    /\ output.val.saleAmount = output.val.sale.amount
    /\ output.val.invoice_id = output.val.sale.invoiceId
    /\ output.val.payment_processor = output.val.sale.paymentProcessor

\* C14 amended: the schema checks each field on its own and relates no
\* deprecated field to its canonical one: in every accepted object saleAmount
\* is a number, invoice_id and payment_processor are strings passed through as
\* given, sale.amount is a positive integer, sale.paymentProcessor is one of
\* the three processors and sale.invoiceId is a string or null (null when left
\* out), so invoice_id differs from sale.invoiceId whenever the latter is null.
C14_FieldsCheckedIndependently ==
  output.st = "ok" =>
    /\ IsNumber(output.val.saleAmount) /\ output.val.saleAmount = input.saleAmount
    /\ IsString(output.val.invoice_id) /\ output.val.invoice_id = input.invoice_id
    /\ IsString(output.val.payment_processor)
    /\ output.val.payment_processor = input.payment_processor
    /\ output.val.sale.amount.t = "number" /\ output.val.sale.amount.n > 0
    /\ output.val.sale.paymentProcessor.s \in PaymentProcessors
    /\ output.val.sale.invoiceId.t \in {"string", "null"}
    /\ output.val.sale.invoiceId.t = "null" =>
         output.val.invoice_id # output.val.sale.invoiceId

\* an accepted object whose three deprecated fields all differ from the
\* canonical ones
C14_Witness ==
  /\ output.st = "ok"
  /\ input.sale.invoiceId = UndefV
  /\ output.val.saleAmount # output.val.sale.amount
  /\ output.val.invoice_id # output.val.sale.invoiceId
  /\ output.val.payment_processor # output.val.sale.paymentProcessor


\* ------------------------------------------------------ claims on the import
RECURSIVE AllPassed(_)
\* the short links passed to bulk-insert over the given calls, in order
AllPassed(calls) ==
  IF calls = <<>> THEN <<>> ELSE Head(calls).links \o AllPassed(Tail(calls))

NoRepeat(seq) == \A a \in 1..Len(seq) : \A b \in 1..Len(seq) : seq[a] = seq[b] => a = b

NonePassedExisted ==
  \A c \in 1..Len(bulkCalls) :
    \A k \in 1..Len(bulkCalls[c].links) :
      bulkCalls[c].links[k] \notin inv[bulkCalls[c].inv].linksAtLookup

\* C15 as stated: without overlap and failure no short link is passed to
\* bulk-insert twice, within a page or across pages, and none that exists in
\* persistence is passed.
C15_NoShortLinkPassedTwice ==
  NoRepeat(AllPassed(bulkCalls)) /\ NonePassedExisted

\* C15 amended: without overlap and failure no short link is passed to
\* bulk-insert by two invocations and none that exists in persistence is
\* passed; within one page a new short link is passed once for every entry of
\* the batch that has it.
C15_NoShortLinkPassedByTwoPages ==
  /\ NonePassedExisted
  /\ \A c \in 1..Len(bulkCalls) : \A d \in 1..Len(bulkCalls) :
       c # d => SeqToSet(bulkCalls[c].links) \cap SeqToSet(bulkCalls[d].links) = {}
  /\ \A c \in 1..Len(bulkCalls) :
       LET batch == ShortLinks(BatchOf(bulkCalls[c].inv))
       IN \A s \in SeqToSet(bulkCalls[c].links) :
            Cardinality({k \in 1..Len(bulkCalls[c].links) : bulkCalls[c].links[k] = s})
              = Cardinality({k \in 1..Len(batch) : batch[k] = s})

\* a page passed the same new short link twice and a later page skipped it
C15_Witness ==
  /\ Len(bulkCalls) >= 2
  /\ Len(bulkCalls[1].links) = 2 /\ bulkCalls[1].links[1] = bulkCalls[1].links[2]
  /\ Includes(ShortLinks(BatchOf(bulkCalls[2].inv)), bulkCalls[1].links[1])
  /\ ~Includes(bulkCalls[2].links, bulkCalls[1].links[1])

\* C16: every invocation that succeeded has finalized or published a
\* continuation whose cursor is a non-empty string, the one the provider
\* returned, and no continuation makes the next invocation request the first
\* page again, whatever the provider returns as cursor.
C16_NeverBackToFirstPage ==
  /\ \A i \in 1..Len(inv) :
       inv[i].pc = "done" =>
         \/ inv[i].returned = "count"
         \/ \E k \in PublishedBy(i) : NonEmptyCursor(published[k].body.searchAfter)
  /\ \A k \in 1..Len(published) :
       /\ NonEmptyCursor(published[k].body.searchAfter)
       /\ RequestedCursor(ArgsOf(published[k].body).searchAfter) # NoCursor

\* invocation i failed after its bulk insert had completed
FailedAfterInsert(i) == inv[i].pc = "failed" /\ Issued(i, "delay")

\* C17: the re-run of an invocation that failed after its bulk insert passes
\* none of the links that attempt persisted to bulk-insert (it passes none at
\* all), and forwards or reports the count the failed attempt had reached.
C17_RerunIsIdempotent ==
  \A j \in 1..Len(inv) :
    (inv[j].retryOf # 0 /\ FailedAfterInsert(inv[j].retryOf)) =>
      LET i == inv[j].retryOf
      IN /\ \A c \in BulkCallsBy(j) :
              /\ SeqToSet(bulkCalls[c].links) \cap SeqToSet(ShortLinks(inv[i].linksToCreate)) = {}
              /\ bulkCalls[c].links = <<>>
         /\ Issued(j, "delay") => inv[j].count = inv[i].count
         /\ \A k \in PublishedBy(j) : published[k].body.count = inv[i].count
         /\ \A k \in EmailsBy(j) : emails[k].count = inv[i].count
         /\ Issued(j, "delay") => SeqToSet(ShortLinks(inv[i].linksToCreate)) \subseteq links

C17_Witness ==
  \E j \in 1..Len(inv) :
    /\ inv[j].retryOf # 0 /\ inv[j].pc = "done"
    /\ inv[inv[j].retryOf].failedAt = "publish"
    /\ inv[inv[j].retryOf].linksToCreate # <<>>
    /\ PublishedBy(j) # {}

====
